---- MODULE Spec2Model ----
(***************************************************************************)
(* XRP insights dashboard: the data acquisition pipeline of                *)
(* src/src/data_ingestion.py (_rpc, _to_utc, fetch_recent_transactions,    *)
(* get_account_info, get_account_tx, get_server_health, cg_get_top_coins)  *)
(* and the aggregation functions of src/src/processing.py.                 *)
(*                                                                         *)
(* The remote service is the environment: every HTTP request is answered   *)
(* by a response drawn from a small set that covers each path of the code  *)
(* that handles it.  Result payloads are JSON objects whose fields may be  *)
(* missing or null; a status payload may also be malformed.                *)
(***************************************************************************)
EXTENDS Integers, Sequences, FiniteSets, TLC

VARIABLES
    LAST_ENDPOINT,  \* data_ingestion.LAST_ENDPOINT, "None" or a member of ENDPOINTS
    rpc,            \* the _rpc invocation in progress (or just finished)
    pc,             \* position of the caller of _rpc
    ledgers_back,   \* argument of fetch_recent_transactions
    info,           \* local of fetch_recent_transactions (unbound if line 61 raised)
    latest,         \* local of fetch_recent_transactions
    idx,            \* loop variable of fetch_recent_transactions
    rows,           \* local list of fetch_recent_transactions
    ledger_calls,   \* history: ledger_index of every "ledger" call issued
    fetched,        \* history: <<ledger_index, payload>> of every block fetched
    ret,            \* outcome of the operation that finished last
    clock,          \* what datetime.utcnow() reads
    blk,            \* input of the block step applied on its own
    agg_in,         \* input of the aggregation function applied last
    agg_out,        \* its output
    calls,          \* history: method of every _rpc call of the operation in progress
    last_ok,        \* history: the endpoint that answered the last successful _rpc call
    limit,          \* argument of get_account_tx
    health_out,     \* the local dict `out` of get_server_health
    cg              \* arguments and locals of cg_get_top_coins

vars == <<LAST_ENDPOINT, rpc, pc, ledgers_back, info, latest, idx, rows,
          ledger_calls, fetched, ret, clock, blk, agg_in, agg_out,
          calls, last_ok, limit, health_out, cg>>

-----------------------------------------------------------------------------
(* Bounds of the model *)

MaxDepth == 2          \* largest ledgers_back passed to the sampler
MaxTxs == 2            \* longest transaction list of a block processed alone
MaxRecords == 3        \* longest input of the aggregation functions

-----------------------------------------------------------------------------
(* Configuration constants and small helpers *)

ENDPOINTS == << "https://s1.ripple.com:51234",
                "https://s2.ripple.com:51234",
                "https://xrplcluster.com/" >>

NoEndpoint == "None"

Last(s) == s[Len(s)]

Max(a, b) == IF a >= b THEN a ELSE b

RECURSIVE Flatten(_)
Flatten(ss) == IF ss = <<>> THEN <<>> ELSE Head(ss) \o Flatten(Tail(ss))

RECURSIVE SeqsUpTo(_, _)
SeqsUpTo(S, n) ==
    IF n = 0 THEN {<<>>}
    ELSE LET shorter == SeqsUpTo(S, n - 1)
         IN shorter \cup {Append(s, x) : s \in {t \in shorter : Len(t) = n - 1}, x \in S}

-----------------------------------------------------------------------------
(* The remote service: responses to one HTTP POST *)

NoPayload == [shape |-> "none"]

\* One HTTP exchange.  transport: did requests.post return; status_ok: does
\* raise_for_status pass; body.kind: what r.json() yields ("undecodable" when
\* it raises, "scalar" for null/number/boolean, "sequence" for a JSON array or
\* string, "object" for a JSON object); body.has_result: the value of
\* `"result" in res` for a sequence or an object.
Response(transport, status_ok, kind, has_result, result) ==
    [transport |-> transport, status_ok |-> status_ok,
     body |-> [kind |-> kind, has_result |-> has_result, result |-> result]]

FailingResponses ==
    { Response("error", FALSE, "undecodable", FALSE, NoPayload),
      Response("ok", FALSE, "object", TRUE, NoPayload),
      Response("ok", TRUE, "undecodable", FALSE, NoPayload),
      Response("ok", TRUE, "scalar", FALSE, NoPayload),
      Response("ok", TRUE, "sequence", FALSE, NoPayload),
      Response("ok", TRUE, "sequence", TRUE, NoPayload),
      Response("ok", TRUE, "object", FALSE, NoPayload) }

GoodResponse(payload) == Response("ok", TRUE, "object", TRUE, payload)

-----------------------------------------------------------------------------
(* _rpc *)

NoError == [exc |-> "None", url |-> "None"]

\* An exception (or the RuntimeError of line 40) raised while trying `url`.
Failure(exc, url) == [exc |-> exc, url |-> url]

AttemptResult(ok, sets_last, err, value) ==
    [ok |-> ok, sets_last |-> sets_last, err |-> err, value |-> value]

AttemptOutcome_resultNotRequired(url, resp) ==
    IF resp.transport = "error"
    THEN AttemptResult(FALSE, FALSE, Failure("ConnectionError", url), NoPayload)
    ELSE IF ~resp.status_ok
    THEN AttemptResult(FALSE, FALSE, Failure("HTTPError", url), NoPayload)
    ELSE IF resp.body.kind = "undecodable"
    THEN AttemptResult(FALSE, FALSE, Failure("JSONDecodeError", url), NoPayload)
    ELSE AttemptResult(TRUE, TRUE, NoError, resp.body.result)

\* One iteration of the loop of _rpc, lines 28-43.
AttemptOutcome(url, resp) ==
    IF resp.transport = "error"                       \* line 29 raises
    THEN AttemptResult(FALSE, FALSE, Failure("ConnectionError", url), NoPayload)
    ELSE IF ~resp.status_ok                           \* line 35 raises
    THEN AttemptResult(FALSE, FALSE, Failure("HTTPError", url), NoPayload)
    ELSE IF resp.body.kind = "undecodable"            \* line 36 raises
    THEN AttemptResult(FALSE, FALSE, Failure("JSONDecodeError", url), NoPayload)
    ELSE IF resp.body.kind = "scalar"                 \* line 37 raises TypeError
    THEN AttemptResult(FALSE, FALSE, Failure("TypeError", url), NoPayload)
    ELSE IF resp.body.has_result
    THEN IF resp.body.kind = "object"                 \* lines 38-39
         THEN AttemptResult(TRUE, TRUE, NoError, resp.body.result)
         \* line 38 has assigned LAST_ENDPOINT when res["result"] raises
         ELSE AttemptResult(FALSE, TRUE, Failure("TypeError", url), NoPayload)
    ELSE AttemptResult(FALSE, FALSE, Failure("RuntimeError: Bad RPC", url), NoPayload)

\* The RuntimeError of line 44.
AllEndpointsFailed(last_err) ==
    [shape |-> "error", exc |-> "RuntimeError",
     msg |-> "All XRPL endpoints failed. Last error: ", last_err |-> last_err]

IdleRpc ==
    [state |-> "idle", method |-> "none", params |-> NoPayload, i |-> 1,
     last_err |-> NoError, tried |-> <<>>, last_resp |-> NoPayload,
     value |-> NoPayload]

\* Entry of _rpc, lines 25-27: the loop starts at the head of ENDPOINTS.
NewCall(method, params) ==
    [IdleRpc EXCEPT !.state = "trying", !.method = method, !.params = params]

RpcStep_keepFirstError(r, resp) ==
    LET url == ENDPOINTS[r.i]
        o == AttemptOutcome(url, resp)
        err == IF r.last_err = NoError THEN o.err ELSE r.last_err
        seen == [r EXCEPT !.tried = Append(@, [url |-> url, ok |-> o.ok]),
                          !.last_resp = resp]
    IN  IF o.ok
        THEN [seen EXCEPT !.state = "returned", !.value = o.value,
                          !.last_err = NoError]
        ELSE IF r.i = Len(ENDPOINTS)
        THEN [seen EXCEPT !.state = "raised", !.last_err = err,
                          !.value = AllEndpointsFailed(err)]
        ELSE [seen EXCEPT !.i = @ + 1, !.last_err = err]

\* The effect of one iteration on the invocation: return at line 39, go on
\* to the next endpoint, or fall out of the loop and raise at line 44.
\* tried and last_resp record what was attempted and what came back.
RpcStep(r, resp) ==
    LET url == ENDPOINTS[r.i]
        o == AttemptOutcome(url, resp)
        seen == [r EXCEPT !.tried = Append(@, [url |-> url, ok |-> o.ok]),
                          !.last_resp = resp]
    IN  IF o.ok
        THEN [seen EXCEPT !.state = "returned", !.value = o.value,
                          !.last_err = NoError]
        ELSE IF r.i = Len(ENDPOINTS)
        THEN [seen EXCEPT !.state = "raised", !.last_err = o.err,
                          !.value = AllEndpointsFailed(o.err)]
        ELSE [seen EXCEPT !.i = @ + 1, !.last_err = o.err]

\* Line 38.
LastEndpointAfter(le, r, resp) ==
    IF AttemptOutcome(ENDPOINTS[r.i], resp).sets_last THEN ENDPOINTS[r.i] ELSE le

-----------------------------------------------------------------------------
(* Time values and table cells *)

\* An aware UTC datetime, t seconds after the Unix epoch.
DateTime(t) == [kind |-> "datetime", parses |-> TRUE, t |-> t]

NaT == [kind |-> "NaT", parses |-> FALSE, t |-> 0]

\* pd.to_datetime(cell, utc=True, errors="coerce"): a datetime is kept, a
\* text that parses becomes the datetime it denotes, anything else is NaT.
ToDatetime(c) ==
    IF c.kind = "datetime" \/ (c.kind = "text" /\ c.parses)
    THEN DateTime(c.t)
    ELSE NaT

\* A fee as the ledger carries it: the decimal text of a number of drops.
FeeText(n) == [kind |-> "text", parses |-> TRUE, v |-> n]

-----------------------------------------------------------------------------
(* Payloads of the "server_info" method *)

Num(n) == [t |-> "num", v |-> n]
Dash == [t |-> "dash", v |-> 0]
Comma == [t |-> "other", v |-> 0]
Word == [t |-> "word", v |-> 0]

\* complete_ledgers: missing, not a string, or a string given by its tokens
\* (a run of digits, "-", or anything else).
ClAbsent == [kind |-> "absent", toks |-> <<>>]
ClNotString == [kind |-> "nonstr", toks |-> <<>>]
ClString(toks) == [kind |-> "str", toks |-> toks]

SeqAbsent == [present |-> FALSE, v |-> 0]
SeqValue(n) == [present |-> TRUE, v |-> n]

\* wellformed = FALSE: the payload, its "info" or its "validated_ledger" is
\* not an object, so that a .get of line 62 raises AttributeError.
InfoPayload(wellformed, seq, cl) ==
    [shape |-> "info", wellformed |-> wellformed, seq |-> seq, cl |-> cl]

HasDash(toks) == \E k \in 1..Len(toks) : toks[k] = Dash

\* cl.split("-")[-1]
AfterLastDash(toks) ==
    LET dashes == {k \in 1..Len(toks) : toks[k] = Dash}
        lastd == CHOOSE k \in dashes : \A j \in dashes : j <= k
    IN  IF dashes = {} THEN toks ELSE SubSeq(toks, lastd + 1, Len(toks))

BeforeFirstDash(toks) ==
    LET dashes == {k \in 1..Len(toks) : toks[k] = Dash}
        firstd == CHOOSE k \in dashes : \A j \in dashes : k <= j
    IN  IF dashes = {} THEN toks ELSE SubSeq(toks, 1, firstd - 1)

\* int(text): succeeds on a single run of digits.
ParseInt(toks) ==
    IF Len(toks) = 1 /\ toks[1].t = "num"
    THEN [ok |-> TRUE, v |-> toks[1].v]
    ELSE [ok |-> FALSE, v |-> 0]

Unknown == [known |-> FALSE, raised |-> FALSE, v |-> 0]
Known(n) == [known |-> TRUE, raised |-> FALSE, v |-> n]
Raised == [known |-> FALSE, raised |-> TRUE, v |-> 0]

LatestOf_lowerBound(payload) ==
    IF ~payload.wellformed THEN Raised
    ELSE IF payload.seq.present THEN Known(payload.seq.v)
    ELSE IF payload.cl.kind = "str" /\ HasDash(payload.cl.toks)
    THEN LET n == ParseInt(BeforeFirstDash(payload.cl.toks))
         IN  IF n.ok THEN Known(n.v) ELSE Unknown
    ELSE Unknown

\* Lines 62-69: the validated sequence, else the upper bound of the
\* complete range, else None.
LatestOf(payload) ==
    IF ~payload.wellformed THEN Raised                       \* line 62 raises
    ELSE IF payload.seq.present THEN Known(payload.seq.v)       \* line 62
    ELSE IF payload.cl.kind = "str" /\ HasDash(payload.cl.toks) \* line 65
    THEN LET n == ParseInt(AfterLastDash(payload.cl.toks))   \* line 67
         IN  IF n.ok THEN Known(n.v) ELSE Unknown         \* lines 68-69
    ELSE Unknown

StatusResult(kind, v) == [kind |-> kind, v |-> v]

StatusQuery_propagate(r) ==
    IF r.state = "raised" THEN StatusResult("raise", 0)
    ELSE LET l == LatestOf(r.value)
         IN  IF l.raised \/ ~l.known THEN StatusResult("empty", 0)
             ELSE StatusResult("latest", l.v)

\* Lines 60-73 once _rpc("server_info") has finished as r: the sampler goes
\* on with a latest sequence or returns the empty sample.
StatusQuery(r) ==
    IF r.state = "raised" THEN StatusResult("empty", 0)       \* lines 72-73
    ELSE LET l == LatestOf(r.value)
         IN  IF l.raised THEN StatusResult("empty", 0)        \* lines 72-73
             ELSE IF ~l.known THEN StatusResult("empty", 0)   \* lines 70-71
             ELSE StatusResult("latest", l.v)

LatestSeq == 1         \* validated_ledger.seq the service reports
RangeLow == 1          \* lower bound of the complete range it reports
RangeHigh == 3         \* upper bound of the complete range it reports

InfoPayloads ==
    { InfoPayload(FALSE, SeqAbsent, ClAbsent),
      InfoPayload(TRUE, SeqValue(LatestSeq), ClAbsent),
      InfoPayload(TRUE, SeqValue(LatestSeq),
                  ClString(<<Num(RangeLow), Dash, Num(RangeHigh)>>)),
      InfoPayload(TRUE, SeqAbsent, ClAbsent),
      InfoPayload(TRUE, SeqAbsent, ClNotString),
      InfoPayload(TRUE, SeqAbsent, ClString(<<Word>>)),
      InfoPayload(TRUE, SeqAbsent, ClString(<<Num(RangeLow), Dash>>)),
      InfoPayload(TRUE, SeqAbsent, ClString(<<Num(RangeLow), Dash, Word>>)),
      InfoPayload(TRUE, SeqAbsent,
                  ClString(<<Num(RangeLow), Dash, Num(RangeHigh)>>)),
      InfoPayload(TRUE, SeqAbsent,
                  ClString(<<Num(0), Dash, Num(0), Comma,
                             Num(RangeLow), Dash, Num(RangeHigh)>>)) }

-----------------------------------------------------------------------------
(* Payloads of the "ledger" method *)

TimeAbsent == [kind |-> "absent", t |-> 0]
HumanOk(t) == [kind |-> "ok", t |-> t]
HumanBad == [kind |-> "bad", t |-> 0]
UnixInt(t) == [kind |-> "int", t |-> t]
UnixBad == [kind |-> "bad", t |-> 0]

Scalar(v) == [composite |-> FALSE, value |-> v]
Composite(v) == [composite |-> TRUE, value |-> v]

\* A transaction of the block `index`, the n-th of its list.  kind: "S" a
\* successful native payment, "C" a successful issued-asset payment, "F" one
\* that failed with tecPATH_DRY, "N" one without a result code.
Tx(kind, index, n) ==
    [hash |-> <<index, n>>,
     result |-> CASE kind \in {"S", "C"} -> "tesSUCCESS"
                  [] kind = "F" -> "tecPATH_DRY"
                  [] OTHER -> "absent",
     Amount |-> IF kind = "C" THEN Composite("123.45") ELSE Scalar("25000000"),
     Fee |-> FeeText(12),
     Account |-> "rSender",
     TransactionType |-> IF kind = "C" THEN "Payment" ELSE "OfferCreate"]

TxKinds == {"S", "C", "F", "N"}

\* has_ledger = FALSE: the result carries no "ledger" (an error result such
\* as lgrNotFound), so that line 81 yields {}.
BlockPayload(has_ledger, human, unix, txs) ==
    [shape |-> "ledger", has_ledger |-> has_ledger, human |-> human,
     unix |-> unix, txs |-> txs]

NoLedger == BlockPayload(FALSE, TimeAbsent, TimeAbsent, <<>>)

Block(index, human, unix, kinds) ==
    BlockPayload(TRUE, human, unix,
                 [n \in 1..Len(kinds) |-> Tx(kinds[n], index, n)])

\* Line 81: res.get("ledger", {}) or {}
Lgr(res) == IF res.has_ledger THEN res ELSE NoLedger

\* Lines 46-56.  A missing human time is falsy and one that does not parse
\* raises inside the first try; `close_time_unix or 0` turns a missing epoch
\* into 0; only an epoch int() rejects reaches the utcnow() of line 56.
_to_utc(close_time_human, close_time_unix, now) ==
    IF close_time_human.kind = "ok" THEN close_time_human.t      \* line 50
    ELSE IF close_time_unix.kind = "absent" THEN 0               \* line 54
    ELSE IF close_time_unix.kind = "int" THEN close_time_unix.t  \* line 54
    ELSE now                                                     \* line 56

Keep_notFailed(tx) == tx.result # "tecPATH_DRY"

\* Lines 84-86.
Keep(tx) == tx.result = "tesSUCCESS"

\* Lines 87-88.
AmountValue(amt) == amt.value

\* Lines 89-96.
Row(tx, dt) ==
    [hash |-> tx.hash, date_utc |-> DateTime(dt),
     amount |-> AmountValue(tx.Amount), fee_drops |-> tx.Fee,
     account |-> tx.Account, transaction_type |-> tx.TransactionType]

\* Lines 81-96: the rows one fetched block appends.
BlockRows(res, now) ==
    LET lgr == Lgr(res)
        dt == _to_utc(lgr.human, lgr.unix, now)
        kept == SelectSeq(lgr.txs, Keep)
    IN  [n \in 1..Len(kept) |-> Row(kept[n], dt)]

HumanClose(index) == 600 + 60 * index
UnixClose(index) == 630 + 60 * index

\* What the service may answer to a "ledger" call for `index` in a sample.
SampledBlocks(index) ==
    { NoLedger } \cup
    { Block(index, tm[1], tm[2], kinds) :
        tm \in { <<HumanOk(HumanClose(index)), UnixInt(UnixClose(index))>>,
                 <<TimeAbsent, UnixInt(UnixClose(index))>> },
        kinds \in { <<>>, <<"S">>, <<"S", "F">>, <<"N", "C">> } }

-----------------------------------------------------------------------------
(* fetch_recent_transactions *)

SampleColumns ==
    <<"hash", "date_utc", "amount", "fee_drops", "account", "transaction_type">>

DataFrame(columns, rs) == [columns |-> columns, rows |-> rs]

\* Lines 71 and 73.
EmptySample == DataFrame(SampleColumns, <<>>)

\* Lines 98-101: pd.DataFrame([]) has no columns.
SampleFrame(rs) ==
    IF rs = <<>> THEN DataFrame(<<>>, <<>>)
    ELSE DataFrame(SampleColumns,
                   [n \in 1..Len(rs) |-> [rs[n] EXCEPT !.date_utc = ToDatetime(@)]])

LedgerRange_unclamped(from, depth) ==
    [k \in 1..Max(0, depth) |-> from - k + 1]

\* Line 76: range(latest, latest - max(1, ledgers_back), -1)
LedgerRange(from, depth) ==
    [k \in 1..Max(1, depth) |-> from - k + 1]

\* Line 78.
LedgerParams(index) ==
    [shape |-> "params", ledger_index |-> ToString(index),
     transactions |-> TRUE, expand |-> TRUE, binary |-> FALSE]

GoesOn_breakOnFailure(state, pos, n) == state = "returned" /\ pos < n

\* Lines 76-80: after the call for position pos of a range of n indices has
\* finished in `state`, the loop goes on iff indices remain.
GoesOn(state, pos, n) == pos < n

NoRet == [op |-> "none", status |-> "none", value |-> NoPayload]
Returns(op, value) == [op |-> op, status |-> "returned", value |-> value]
Raises(op, value) == [op |-> op, status |-> "raised", value |-> value]

-----------------------------------------------------------------------------
(* Address explorer helpers and server health: lines 104-118 and 158-176 *)

Absent == [shape |-> "absent"]      \* a key the dict does not have
Null == [shape |-> "null"]          \* JSON null, None
EmptyDict == [shape |-> "dict", empty |-> TRUE]
SomeDict(what) == [shape |-> "dict", empty |-> FALSE, what |-> what]

\* The limit argument is counted in halves, so that int() has a fraction to
\* drop: 401 is 200.5.
NoLimit == 0
Halves == 2

\* int(x): truncation towards zero.
PyInt(h) == IF h >= 0 THEN h \div Halves ELSE 0 - ((0 - h) \div Halves)

\* What the number input of app.py line 195 lets through (5, 20, 200), and
\* what any other caller may pass: -0.5, 0, 0.5, 4.5, 200.5, 201.
WidgetLimits == {5 * Halves, 20 * Halves, 200 * Halves}
Limits == WidgetLimits \cup {0 - 1, 0, 1, 9, 401, 402}

Address == "rAddress"

\* Lines 105-109.
AccountInfoParams ==
    [account |-> Address, ledger_index |-> "validated", strict |-> TRUE]

\* Lines 112-117.
AccountTxParams(lim) ==
    [account |-> Address, limit |-> PyInt(lim),
     ledger_index_min |-> 0 - 1, ledger_index_max |-> 0 - 1]

\* account_info results: with account_data, or an error object without it.
AccountInfoPayloads ==
    { [shape |-> "account_info", account_data |-> SomeDict("account_data")],
      [shape |-> "account_info", account_data |-> Absent] }

Envelope(n) == [tx |-> SomeDict("tx"), meta |-> SomeDict("meta"), n |-> n]

\* A JSON array, a Python list.
List(items) == [shape |-> "list", items |-> items]

\* account_tx results: the transactions key absent, null, empty or filled.
AccountTxPayloads ==
    { [shape |-> "account_tx", transactions |-> t] :
        t \in {Absent, Null, List(<<>>), List(<<Envelope(1)>>),
               List(<<Envelope(1), Envelope(2)>>)} }

\* Line 118: res.get("transactions", []) or [].
Transactions(res) ==
    IF res.transactions \in {Absent, Null} THEN List(<<>>) ELSE res.transactions

\* server_info results as get_server_health reads them: null (not an
\* object), or an object whose info key is absent, null, empty or filled.
HealthInfoPayloads ==
    {Null} \cup
    { [shape |-> "status", info |-> i] :
        i \in {Absent, Null, EmptyDict, SomeDict("info")} }

\* fee results: null, the empty object, or a fee schedule.
FeePayloads == {Null, EmptyDict, SomeDict("fee")}

\* str(e)
Str(e) == [shape |-> "str", of |-> e]

AttributeError == [shape |-> "error", exc |-> "AttributeError"]

NoDict == [info |-> Absent, info_error |-> Absent,
           fee |-> Absent, fee_error |-> Absent]

\* Lines 164-168 once the server_info call r has finished.
InfoHalf(o, r) ==
    IF r.state = "raised" THEN [o EXCEPT !.info_error = Str(r.value)]
    ELSE IF r.value = Null                            \* None.get raises
    THEN [o EXCEPT !.info_error = Str(AttributeError)]
    ELSE IF r.value.info \in {Absent, Null, EmptyDict}
    THEN [o EXCEPT !.info = EmptyDict]
    ELSE [o EXCEPT !.info = r.value.info]

\* Lines 170-174 once the fee call r has finished.
FeeHalf(o, r) ==
    IF r.state = "raised" THEN [o EXCEPT !.fee_error = Str(r.value)]
    ELSE IF r.value \in {Null, EmptyDict}
    THEN [o EXCEPT !.fee = EmptyDict]
    ELSE [o EXCEPT !.fee = r.value]

FeeIsCalled_onlyAfterInfo(state) == state = "returned"

\* Lines 167-170: the second try block is entered whichever way the first
\* one ended.
FeeIsCalled(state) == TRUE

-----------------------------------------------------------------------------
(* cg_get_top_coins: lines 201-252 *)

MaxAttempts == 6       \* lines 213 and 249
PerPageCap == 250      \* line 208

Min(a, b) == IF a <= b THEN a ELSE b

\* A list of coin records stands for its length: the code never looks into
\* the records, only len(out), len(data) and the slice of line 252.
Coins(n) == [shape |-> "list", len |-> n]

\* len(xs[:lim]) for a list of n items.
Slice(n, lim) == IF lim >= 0 THEN Min(n, lim) ELSE Max(0, n + lim)

\* The limit argument: none, one, a page that is not full, exactly one
\* page, and two limits that need a second and a third page.
CgLimits == {0, 1, 2, PerPageCap, PerPageCap + 1, 2 * PerPageCap + 1}

IdleCg ==
    [limit |-> 0, per_page |-> 0, page |-> 0, out |-> 0, attempts |-> 0,
     broke |-> FALSE, last |-> "none", run |-> 0, requests |-> 0]

\* Lines 208-211.  last, run and requests are history: the outcome of the
\* last request, the failed requests in a row up to now, all requests.
CgEnter(lim) ==
    [limit |-> lim, per_page |-> Min(PerPageCap, Max(1, lim)), page |-> 1,
     out |-> 0, attempts |-> 0,
     broke |-> FALSE, last |-> "none", run |-> 0, requests |-> 0]

\* The condition of line 213.
CgLoop(c) == c.out < c.limit /\ c.attempts < MaxAttempts

Outcome(kind, size) == [kind |-> kind, size |-> size]

\* What one request can come to: a transient status (429, 502, 503, 504),
\* an exception (of requests.get, raise_for_status or r.json), a body that
\* is not a list, or a list: empty, short of per_page, full, or longer.
Outcomes(c) ==
    { Outcome("transient", 0), Outcome("exception", 0), Outcome("nonlist", 0) }
    \cup { Outcome("page", n) :
             n \in {0, c.per_page - 1, c.per_page, c.per_page + 1} }

AfterFullPage_noReset(c) == [c EXCEPT !.page = @ + 1]

\* Lines 243-244.
AfterFullPage(c) == [c EXCEPT !.page = @ + 1, !.attempts = 0]

\* One iteration of the loop, lines 214-250; broke: it ended in a break.
CgStep(c, o) ==
    LET failed == o.kind \in {"transient", "exception"}
        seen == [c EXCEPT !.requests = @ + 1, !.last = o.kind,
                          !.run = IF failed THEN @ + 1 ELSE 0]
    IN  CASE o.kind = "transient" ->                  \* lines 229-232
               [seen EXCEPT !.attempts = @ + 1]
          [] o.kind = "exception" ->                  \* lines 246-250
               [seen EXCEPT !.attempts = @ + 1,
                            !.broke = c.attempts + 1 >= MaxAttempts]
          [] o.kind = "nonlist" \/ (o.kind = "page" /\ o.size = 0) ->
               [seen EXCEPT !.broke = TRUE]           \* lines 236-237
          [] o.kind = "page" /\ o.size > 0 ->
               LET got == [seen EXCEPT !.out = @ + o.size]    \* line 239
               IN  IF o.size < c.per_page                     \* lines 240-241
                   THEN [got EXCEPT !.broke = TRUE]
                   ELSE AfterFullPage(got)

\* Line 252.
CgResult(c) == Returns("cg_get_top_coins", Coins(Slice(c.out, c.limit)))

-----------------------------------------------------------------------------
(* fetch_recent_transactions and the other callers of _rpc *)

Depths == (0 - 1)..MaxDepth

ResponsesTo(r) ==
    FailingResponses \cup
    { GoodResponse(p) :
        p \in CASE r.method = "server_info" /\ pc = "health_info" -> HealthInfoPayloads
                [] r.method = "server_info" /\ pc # "health_info" -> InfoPayloads
                [] r.method = "ledger" -> SampledBlocks(idx)
                [] r.method = "fee" -> FeePayloads
                [] r.method = "account_info" -> AccountInfoPayloads
                [] r.method = "account_tx" -> AccountTxPayloads
                [] OTHER -> {} }

Unbound == [shape |-> "unbound"]

Init ==
    /\ LAST_ENDPOINT = NoEndpoint
    /\ rpc = IdleRpc
    /\ pc = "idle"
    /\ ledgers_back = 0
    /\ info = Unbound
    /\ latest = 0
    /\ idx = 0
    /\ rows = <<>>
    /\ ledger_calls = <<>>
    /\ fetched = <<>>
    /\ ret = NoRet
    /\ clock = 0
    /\ blk = NoLedger
    /\ agg_in = NoPayload
    /\ agg_out = NoPayload
    /\ calls = <<>>
    /\ last_ok = NoEndpoint
    /\ limit = NoLimit
    /\ health_out = NoDict
    /\ cg = IdleCg

\* fetch_recent_transactions(depth) is entered: line 61 calls _rpc.
CallFetch(depth) ==
    /\ pc = "idle"
    /\ pc' = "fetch_server_info"
    /\ ledgers_back' = depth
    /\ rpc' = NewCall("server_info", NoPayload)
    /\ calls' = <<"server_info">>
    /\ ret' = NoRet
    /\ UNCHANGED <<LAST_ENDPOINT, info, latest, idx, rows, ledger_calls,
                   fetched, clock, blk, agg_in, agg_out, last_ok, limit,
                   health_out, cg>>

\* One iteration of the loop of _rpc: the next endpoint is posted to and
\* answers resp.
RpcAttempt(resp) ==
    /\ rpc.state = "trying"
    /\ rpc' = RpcStep(rpc, resp)
    /\ LAST_ENDPOINT' = LastEndpointAfter(LAST_ENDPOINT, rpc, resp)
    /\ last_ok' = IF AttemptOutcome(ENDPOINTS[rpc.i], resp).ok
                  THEN ENDPOINTS[rpc.i] ELSE last_ok
    /\ UNCHANGED <<pc, ledgers_back, info, latest, idx, rows, ledger_calls,
                   fetched, ret, clock, blk, agg_in, agg_out, calls, limit,
                   health_out, cg>>

\* Lines 98-101, reached from the loop.
FinishFetch(rs) ==
    /\ ret' = Returns("fetch", SampleFrame(rs))
    /\ pc' = "done"
    /\ rpc' = rpc
    /\ calls' = calls

\* Lines 76-78: the call for position pos of the range.
FetchBlock(range, pos) ==
    /\ idx' = range[pos]
    /\ rpc' = NewCall("ledger", LedgerParams(range[pos]))
    /\ ledger_calls' = Append(ledger_calls, LedgerParams(range[pos]).ledger_index)
    /\ calls' = Append(calls, "ledger")
    /\ pc' = "fetch_ledger"
    /\ ret' = ret

\* Lines 61-76: the status query has finished.
FetchStatusDone ==
    /\ pc = "fetch_server_info"
    /\ rpc.state \in {"returned", "raised"}
    /\ info' = IF rpc.state = "returned" THEN rpc.value ELSE Unbound
    /\ LET q == StatusQuery(rpc)
           range == LedgerRange(q.v, ledgers_back)
       IN  CASE q.kind = "empty" ->
                  /\ ret' = Returns("fetch", EmptySample)
                  /\ pc' = "done"
                  /\ UNCHANGED <<rpc, latest, idx, ledger_calls, calls>>
             [] q.kind = "raise" ->
                  /\ ret' = Raises("fetch", rpc.value)
                  /\ pc' = "done"
                  /\ UNCHANGED <<rpc, latest, idx, ledger_calls, calls>>
             [] OTHER ->
                  /\ latest' = q.v
                  /\ IF Len(range) = 0
                     THEN FinishFetch(<<>>) /\ UNCHANGED <<idx, ledger_calls>>
                     ELSE FetchBlock(range, 1)
    /\ UNCHANGED <<LAST_ENDPOINT, ledgers_back, rows, fetched, clock, blk,
                   agg_in, agg_out, last_ok, limit, health_out, cg>>

\* Lines 78-96 for one index, then the next index or lines 98-101.
FetchLedgerDone ==
    /\ pc = "fetch_ledger"
    /\ rpc.state \in {"returned", "raised"}
    /\ LET range == LedgerRange(latest, ledgers_back)
           pos == latest - idx + 1
           rs == IF rpc.state = "raised" THEN rows             \* lines 79-80
                 ELSE rows \o BlockRows(rpc.value, clock)
       IN  /\ rows' = rs
           /\ fetched' = IF rpc.state = "raised" THEN fetched
                         ELSE Append(fetched, [index |-> idx, res |-> rpc.value])
           /\ IF GoesOn(rpc.state, pos, Len(range))
              THEN FetchBlock(range, pos + 1)
              ELSE FinishFetch(rs) /\ UNCHANGED <<idx, ledger_calls>>
    /\ UNCHANGED <<LAST_ENDPOINT, ledgers_back, info, latest, clock, blk,
                   agg_in, agg_out, last_ok, limit, health_out, cg>>

\* get_account_info(address) is entered, lines 104-109.
CallAccountInfo ==
    /\ pc = "idle"
    /\ pc' = "account_info"
    /\ rpc' = NewCall("account_info", AccountInfoParams)
    /\ calls' = <<"account_info">>
    /\ ret' = NoRet
    /\ UNCHANGED <<LAST_ENDPOINT, ledgers_back, info, latest, idx, rows,
                   ledger_calls, fetched, clock, blk, agg_in, agg_out,
                   last_ok, limit, health_out, cg>>

\* Line 105: what _rpc returned is returned, what it raised is raised.
AccountInfoDone ==
    /\ pc = "account_info"
    /\ rpc.state \in {"returned", "raised"}
    /\ ret' = IF rpc.state = "returned"
              THEN Returns("get_account_info", rpc.value)
              ELSE Raises("get_account_info", rpc.value)
    /\ pc' = "done"
    /\ UNCHANGED <<LAST_ENDPOINT, rpc, ledgers_back, info, latest, idx, rows,
                   ledger_calls, fetched, clock, blk, agg_in, agg_out,
                   calls, last_ok, limit, health_out, cg>>

\* get_account_tx(address, lim) is entered, lines 111-117.
CallAccountTx(lim) ==
    /\ pc = "idle"
    /\ pc' = "account_tx"
    /\ limit' = lim
    /\ rpc' = NewCall("account_tx", AccountTxParams(lim))
    /\ calls' = <<"account_tx">>
    /\ ret' = NoRet
    /\ UNCHANGED <<LAST_ENDPOINT, ledgers_back, info, latest, idx, rows,
                   ledger_calls, fetched, clock, blk, agg_in, agg_out,
                   last_ok, health_out, cg>>

\* Lines 112-118 once the call has finished.
AccountTxDone ==
    /\ pc = "account_tx"
    /\ rpc.state \in {"returned", "raised"}
    /\ ret' = IF rpc.state = "returned"
              THEN Returns("get_account_tx", Transactions(rpc.value))
              ELSE Raises("get_account_tx", rpc.value)
    /\ pc' = "done"
    /\ UNCHANGED <<LAST_ENDPOINT, rpc, ledgers_back, info, latest, idx, rows,
                   ledger_calls, fetched, clock, blk, agg_in, agg_out,
                   calls, last_ok, limit, health_out, cg>>

\* get_server_health() is entered, lines 163-165.
CallHealth ==
    /\ pc = "idle"
    /\ pc' = "health_info"
    /\ health_out' = NoDict
    /\ rpc' = NewCall("server_info", EmptyDict)
    /\ calls' = <<"server_info">>
    /\ ret' = NoRet
    /\ UNCHANGED <<LAST_ENDPOINT, ledgers_back, info, latest, idx, rows,
                   ledger_calls, fetched, clock, blk, agg_in, agg_out,
                   last_ok, limit, cg>>

\* Lines 165-171: the first half is settled and the fee call is issued.
HealthInfoDone ==
    /\ pc = "health_info"
    /\ rpc.state \in {"returned", "raised"}
    /\ info' = IF rpc.state = "returned" THEN rpc.value ELSE Unbound
    /\ health_out' = InfoHalf(health_out, rpc)
    /\ IF FeeIsCalled(rpc.state)
       THEN /\ rpc' = NewCall("fee", EmptyDict)
            /\ calls' = Append(calls, "fee")
            /\ pc' = "health_fee"
            /\ ret' = ret
       ELSE /\ ret' = Returns("get_server_health", InfoHalf(health_out, rpc))
            /\ pc' = "done"
            /\ UNCHANGED <<rpc, calls>>
    /\ UNCHANGED <<LAST_ENDPOINT, ledgers_back, latest, idx, rows,
                   ledger_calls, fetched, clock, blk, agg_in, agg_out,
                   last_ok, limit, cg>>

\* Lines 171-176: the second half is settled and out is returned.
HealthFeeDone ==
    /\ pc = "health_fee"
    /\ rpc.state \in {"returned", "raised"}
    /\ health_out' = FeeHalf(health_out, rpc)
    /\ ret' = Returns("get_server_health", FeeHalf(health_out, rpc))
    /\ pc' = "done"
    /\ UNCHANGED <<LAST_ENDPOINT, rpc, ledgers_back, info, latest, idx, rows,
                   ledger_calls, fetched, clock, blk, agg_in, agg_out,
                   calls, last_ok, limit, cg>>

\* The caller has taken the outcome; the module state that survives is
\* LAST_ENDPOINT.
Reset ==
    /\ pc = "done"
    /\ pc' = "idle"
    /\ rpc' = IdleRpc
    /\ ledgers_back' = 0
    /\ info' = Unbound
    /\ latest' = 0
    /\ idx' = 0
    /\ rows' = <<>>
    /\ ledger_calls' = <<>>
    /\ fetched' = <<>>
    /\ ret' = NoRet
    /\ calls' = <<>>
    /\ limit' = NoLimit
    /\ health_out' = NoDict
    /\ UNCHANGED <<LAST_ENDPOINT, clock, blk, agg_in, agg_out, last_ok, cg>>

Next ==
    \/ \E depth \in Depths : CallFetch(depth)
    \/ \E resp \in ResponsesTo(rpc) : RpcAttempt(resp)
    \/ FetchStatusDone
    \/ FetchLedgerDone
    \/ CallAccountInfo
    \/ AccountInfoDone
    \/ \E lim \in Limits : CallAccountTx(lim)
    \/ AccountTxDone
    \/ CallHealth
    \/ HealthInfoDone
    \/ HealthFeeDone
    \/ Reset

Spec == Init /\ [][Next]_vars

-----------------------------------------------------------------------------
(* One block processed on its own: lines 81-96 over every shape of block *)

CloseHuman == 600      \* what a close_time_human that parses denotes
CloseUnix == 630       \* a close_time the service reports
Now == 700             \* a reading of the clock

AllBlocks ==
    { Block(1, h, u, kinds) :
        h \in {TimeAbsent, HumanBad, HumanOk(CloseHuman)},
        u \in {TimeAbsent, UnixBad, UnixInt(CloseUnix)},
        kinds \in SeqsUpTo(TxKinds, MaxTxs) }

InitBlock ==
    /\ LAST_ENDPOINT = NoEndpoint
    /\ rpc = IdleRpc
    /\ pc = "block"
    /\ ledgers_back = 0
    /\ info = Unbound
    /\ latest = 0
    /\ idx = 0
    /\ rows = <<>>
    /\ ledger_calls = <<>>
    /\ fetched = <<>>
    /\ ret = NoRet
    /\ clock \in {Now, Now + 1}
    /\ blk \in AllBlocks
    /\ agg_in = NoPayload
    /\ agg_out = NoPayload
    /\ calls = <<>>
    /\ last_ok = NoEndpoint
    /\ limit = NoLimit
    /\ health_out = NoDict
    /\ cg = IdleCg

ProcessBlock ==
    /\ pc = "block"
    /\ rows' = BlockRows(blk, clock)
    /\ pc' = "block_done"
    /\ UNCHANGED <<LAST_ENDPOINT, rpc, ledgers_back, info, latest, idx,
                   ledger_calls, fetched, ret, clock, blk, agg_in, agg_out,
                   calls, last_ok, limit, health_out, cg>>

NextBlock == ProcessBlock

SpecBlock == InitBlock /\ [][NextBlock]_vars

-----------------------------------------------------------------------------
(* processing.py: per-minute aggregation *)

SecondsPerMinute == 60
DropsPerXrp == 1000000

None == NoPayload

\* df.empty: some axis has length 0.
IsEmpty(df) == df.rows = <<>> \/ df.columns = <<>>

FloorMin_round(c) ==
    IF c = NaT THEN NaT
    ELSE DateTime((c.t + 30) - ((c.t + 30) % SecondsPerMinute))

\* series.dt.floor("min"); NaT stays NaT.
FloorMin(c) ==
    IF c = NaT THEN NaT ELSE DateTime(c.t - (c.t % SecondsPerMinute))

NaN == [ok |-> FALSE, v |-> 0]

\* pd.to_numeric(cell, errors="coerce"), in drops.
ToNumeric(c) ==
    IF c.kind = "num" \/ (c.kind = "text" /\ c.parses)
    THEN [ok |-> TRUE, v |-> c.v]
    ELSE NaN

SetMin(S) == CHOOSE x \in S : \A y \in S : x <= y

RECURSIVE Ascending(_)
Ascending(S) ==
    IF S = {} THEN <<>> ELSE <<SetMin(S)>> \o Ascending(S \ {SetMin(S)})

RECURSIVE Adjacent(_)
Adjacent(ms) ==
    IF Len(ms) <= 1 THEN ms
    ELSE IF ms[1] = ms[2] THEN Adjacent(Tail(ms))
    ELSE <<ms[1]>> \o Adjacent(Tail(ms))

GroupKeys_adjacentRuns(ms) == Adjacent(ms)

\* The group keys of groupby("minute"): the distinct values, ascending.
GroupKeys(ms) == Ascending({ms[n] : n \in 1..Len(ms)})

RECURSIVE InsertByMinute(_, _)
InsertByMinute(r, sorted) ==
    IF sorted = <<>> THEN <<r>>
    ELSE IF r.minute.t < Head(sorted).minute.t THEN <<r>> \o sorted
    ELSE <<Head(sorted)>> \o InsertByMinute(r, Tail(sorted))

RECURSIVE SortValues(_)
\* out.sort_values("minute"): a stable ascending sort.
SortValues(rs) ==
    IF rs = <<>> THEN <<>>
    ELSE InsertByMinute(Last(rs), SortValues(SubSeq(rs, 1, Len(rs) - 1)))

RECURSIVE SumDrops(_)
SumDrops(rs) == IF rs = <<>> THEN 0 ELSE Head(rs).fee.v + SumDrops(Tail(rs))

RECURSIVE GCD(_, _)
GCD(a, b) == IF b = 0 THEN a ELSE GCD(b, a % b)

\* The rational n/d in lowest terms (the float arithmetic of pandas is not
\* modelled: a mean is the exact quotient).
Fraction(n, d) == [num |-> n \div GCD(n, d), den |-> d \div GCD(n, d)]

\* dropna(subset=["minute"]), line 10.
HasMinute(r) == r.minute # NaT

HasMinuteAndFee_feeOptional(r) == r.minute # NaT

\* dropna(subset=["minute", "fee_xrp"]), line 22.
HasMinuteAndFee(r) == r.minute # NaT /\ r.fee.ok

TxnColumns == <<"minute", "txn_count">>
FeeColumns == <<"minute", "avg_fee_xrp">>

\* Lines 7-9 and 18-21: the working copy with its derived columns.
Derived(df) ==
    [n \in 1..Len(df.rows) |->
        [minute |-> FloorMin(ToDatetime(df.rows[n].date_utc)),
         fee |-> ToNumeric(df.rows[n].fee_drops)]]

compute_txn_per_minute_unguarded(df) ==
    IF df = None \/ df.columns = <<>>
    THEN Raises("compute_txn_per_minute", NoPayload)
    ELSE LET s == SelectSeq(Derived(df), HasMinute)
             keys == GroupKeys([n \in 1..Len(s) |-> s[n].minute.t])
             out == [k \in 1..Len(keys) |->
                       [minute |-> DateTime(keys[k]),
                        txn_count |-> Cardinality({n \in 1..Len(s) : s[n].minute.t = keys[k]})]]
         IN  Returns("compute_txn_per_minute", DataFrame(TxnColumns, SortValues(out)))

\* Lines 3-12.
compute_txn_per_minute(df) ==
    IF df = None \/ IsEmpty(df)                                   \* lines 5-6
    THEN Returns("compute_txn_per_minute", DataFrame(TxnColumns, <<>>))
    ELSE LET s == SelectSeq(Derived(df), HasMinute)               \* lines 7-10
             keys == GroupKeys([n \in 1..Len(s) |-> s[n].minute.t])
             out == [k \in 1..Len(keys) |->                       \* line 11
                       [minute |-> DateTime(keys[k]),
                        txn_count |-> Cardinality({n \in 1..Len(s) : s[n].minute.t = keys[k]})]]
         IN  Returns("compute_txn_per_minute", DataFrame(TxnColumns, SortValues(out)))

InMinute(s, m) ==
    LET Here(r) == r.minute.t = m IN SelectSeq(s, Here)

\* Lines 14-24.
compute_avg_fee(df) ==
    IF df = None \/ IsEmpty(df)                                   \* lines 16-17
    THEN Returns("compute_avg_fee", DataFrame(FeeColumns, <<>>))
    ELSE LET s == SelectSeq(Derived(df), HasMinuteAndFee)         \* lines 18-22
             keys == GroupKeys([n \in 1..Len(s) |-> s[n].minute.t])
             out == [k \in 1..Len(keys) |->                       \* line 23
                       [minute |-> DateTime(keys[k]),
                        avg_fee_xrp |->
                            Fraction(SumDrops(InMinute(s, keys[k])),
                                     Len(InMinute(s, keys[k])) * DropsPerXrp)]]
         IN  Returns("compute_avg_fee", DataFrame(FeeColumns, SortValues(out)))

TextTime(t) == [kind |-> "text", parses |-> TRUE, t |-> t]
BadText == [kind |-> "text", parses |-> FALSE, t |-> 0]
NullCell == [kind |-> "null", parses |-> FALSE, t |-> 0]
BadFee == [kind |-> "text", parses |-> FALSE, v |-> 0]

\* A record of a sample with the timestamp and fee given.
Record(date, fee) ==
    [hash |-> <<0, 0>>, date_utc |-> date, amount |-> "25000000",
     fee_drops |-> fee, account |-> "rSender", transaction_type |-> "Payment"]

Records ==
    { Record(d, f) :
        d \in {DateTime(0), DateTime(59), DateTime(60), TextTime(125), BadText, NullCell},
        f \in {FeeText(10), FeeText(20), BadFee} }

AggInputs ==
    {None, DataFrame(<<>>, <<>>), EmptySample} \cup
    { DataFrame(SampleColumns, rs) : rs \in SeqsUpTo(Records, MaxRecords) \ {<<>>} }

InitAgg ==
    /\ LAST_ENDPOINT = NoEndpoint
    /\ rpc = IdleRpc
    /\ pc = "agg"
    /\ ledgers_back = 0
    /\ info = Unbound
    /\ latest = 0
    /\ idx = 0
    /\ rows = <<>>
    /\ ledger_calls = <<>>
    /\ fetched = <<>>
    /\ ret = NoRet
    /\ clock = 0
    /\ blk = NoLedger
    /\ agg_in \in AggInputs
    /\ agg_out = NoRet
    /\ calls = <<>>
    /\ last_ok = NoEndpoint
    /\ limit = NoLimit
    /\ health_out = NoDict
    /\ cg = IdleCg

ApplyTxnPerMinute ==
    /\ pc = "agg"
    /\ agg_out' = compute_txn_per_minute(agg_in)
    /\ pc' = "agg_done"
    /\ UNCHANGED <<LAST_ENDPOINT, rpc, ledgers_back, info, latest, idx, rows,
                   ledger_calls, fetched, ret, clock, blk, agg_in,
                   calls, last_ok, limit, health_out, cg>>

ApplyAvgFee ==
    /\ pc = "agg"
    /\ agg_out' = compute_avg_fee(agg_in)
    /\ pc' = "agg_done"
    /\ UNCHANGED <<LAST_ENDPOINT, rpc, ledgers_back, info, latest, idx, rows,
                   ledger_calls, fetched, ret, clock, blk, agg_in,
                   calls, last_ok, limit, health_out, cg>>

NextAgg == ApplyTxnPerMinute \/ ApplyAvgFee

SpecAgg == InitAgg /\ [][NextAgg]_vars

-----------------------------------------------------------------------------
(* cg_get_top_coins on its own *)

InitCg ==
    /\ LAST_ENDPOINT = NoEndpoint
    /\ rpc = IdleRpc
    /\ pc = "idle"
    /\ ledgers_back = 0
    /\ info = Unbound
    /\ latest = 0
    /\ idx = 0
    /\ rows = <<>>
    /\ ledger_calls = <<>>
    /\ fetched = <<>>
    /\ ret = NoRet
    /\ clock = 0
    /\ blk = NoLedger
    /\ agg_in = NoPayload
    /\ agg_out = NoPayload
    /\ calls = <<>>
    /\ last_ok = NoEndpoint
    /\ limit = NoLimit
    /\ health_out = NoDict
    /\ cg = IdleCg

\* cg_get_top_coins(lim) is entered: lines 208-213, and line 252 at once if
\* the loop is not entered.
CallCg(lim) ==
    /\ pc = "idle"
    /\ cg' = CgEnter(lim)
    /\ IF CgLoop(CgEnter(lim))
       THEN pc' = "cg" /\ ret' = NoRet
       ELSE pc' = "cg_done" /\ ret' = CgResult(CgEnter(lim))
    /\ UNCHANGED <<LAST_ENDPOINT, rpc, ledgers_back, info, latest, idx, rows,
                   ledger_calls, fetched, clock, blk, agg_in, agg_out,
                   calls, last_ok, limit, health_out>>

\* One request and what follows it: the next iteration, or line 252.
CgRequest(o) ==
    /\ pc = "cg"
    /\ cg' = CgStep(cg, o)
    /\ IF ~CgStep(cg, o).broke /\ CgLoop(CgStep(cg, o))
       THEN pc' = "cg" /\ ret' = ret
       ELSE pc' = "cg_done" /\ ret' = CgResult(CgStep(cg, o))
    /\ UNCHANGED <<LAST_ENDPOINT, rpc, ledgers_back, info, latest, idx, rows,
                   ledger_calls, fetched, clock, blk, agg_in, agg_out,
                   calls, last_ok, limit, health_out>>

NextCg ==
    \/ \E lim \in CgLimits : CallCg(lim)
    \/ \E o \in Outcomes(cg) : CgRequest(o)

SpecCg == InitCg /\ [][NextCg]_vars

\* Every request is answered or times out (timeout=15) and every sleep
\* ends, so the single thread that runs the loop keeps taking steps.
FairSpecCg == SpecCg /\ WF_vars(NextCg)

-----------------------------------------------------------------------------
(* Properties of _rpc *)

\* C1: in one _rpc call the endpoints are attempted in list order, each at
\* most once; an attempt succeeds only when the HTTP status is a success and
\* the decoded body is an object with a "result" field; the first successful
\* attempt ends the call, which records that endpoint as LAST_ENDPOINT and
\* returns its result payload, so that no later endpoint is attempted.
C1_FirstSuccessWins ==
    /\ Len(rpc.tried) <= Len(ENDPOINTS)
    /\ \A k \in 1..Len(rpc.tried) :
          /\ rpc.tried[k].url = ENDPOINTS[k]
          /\ k < Len(rpc.tried) => ~rpc.tried[k].ok
    /\ (rpc.tried # <<>> /\ Last(rpc.tried).ok) =>
          /\ rpc.last_resp.transport = "ok"
          /\ rpc.last_resp.status_ok
          /\ rpc.last_resp.body.kind = "object"
          /\ rpc.last_resp.body.has_result
          /\ rpc.state = "returned"
    /\ rpc.state = "returned" =>
          /\ Last(rpc.tried).ok
          /\ LAST_ENDPOINT = Last(rpc.tried).url
          /\ rpc.value = rpc.last_resp.body.result

\* The first two endpoints failed and the third one answered.
C1_Witness ==
    /\ rpc.state = "returned"
    /\ Len(rpc.tried) = Len(ENDPOINTS)
    /\ LAST_ENDPOINT = Last(ENDPOINTS)

\* C2: when every endpoint attempt of one _rpc call fails, whatever the mix
\* of failures, the call raises the all-endpoints-failed error, whose message
\* carries the failure of the last endpoint attempted, and returns nothing.
C2_AllFailedRaises ==
    /\ ( /\ Len(rpc.tried) = Len(ENDPOINTS)
         /\ \A k \in 1..Len(rpc.tried) : ~rpc.tried[k].ok ) => rpc.state = "raised"
    /\ rpc.state = "raised" =>
          /\ Len(rpc.tried) = Len(ENDPOINTS)
          /\ \A k \in 1..Len(rpc.tried) : ~rpc.tried[k].ok
          /\ rpc.value.shape = "error"
          /\ rpc.value.exc = "RuntimeError"
          /\ rpc.value.last_err.url = Last(ENDPOINTS)
          /\ rpc.last_resp.transport = "error"
                => rpc.value.last_err.exc = "ConnectionError"
          /\ (rpc.last_resp.transport = "ok" /\ ~rpc.last_resp.status_ok)
                => rpc.value.last_err.exc = "HTTPError"
          /\ ( /\ rpc.last_resp.transport = "ok"
               /\ rpc.last_resp.status_ok
               /\ rpc.last_resp.body.kind = "undecodable" )
                => rpc.value.last_err.exc = "JSONDecodeError"
          /\ ( /\ rpc.last_resp.transport = "ok"
               /\ rpc.last_resp.status_ok
               /\ rpc.last_resp.body.kind = "object"
               /\ ~rpc.last_resp.body.has_result )
                => rpc.value.last_err.exc = "RuntimeError: Bad RPC"

\* A call that failed with a transport error, then a bad status, then a
\* body without a result field.
C2_Witness ==
    /\ rpc.state = "raised"
    /\ rpc.last_resp.transport = "ok"
    /\ rpc.last_resp.status_ok
    /\ rpc.last_resp.body.kind = "object"
    /\ rpc.value.last_err = Failure("RuntimeError: Bad RPC", Last(ENDPOINTS))

-----------------------------------------------------------------------------
(* Properties of fetch_recent_transactions *)

\* The status payload carries a validated sequence number, or a complete
\* range text that ends in "-" followed by an integer.
YieldsLatest(p) ==
    /\ p.wellformed
    /\ \/ p.seq.present
       \/ /\ p.cl.kind = "str"
          /\ Len(p.cl.toks) >= 2
          /\ p.cl.toks[Len(p.cl.toks) - 1] = Dash
          /\ Last(p.cl.toks).t = "num"

LatestYielded(p) == IF p.seq.present THEN p.seq.v ELSE Last(p.cl.toks).v

Clamped(depth) == IF depth <= 0 THEN 1 ELSE depth

\* fetch_recent_transactions has finished.
FetchDone == pc = "done" /\ ret.op = "fetch"

AfterStatusQuery == pc = "fetch_ledger" \/ FetchDone

\* C3: if the server_info call fails on all endpoints, or succeeds but yields
\* neither a validated sequence number nor a complete range whose upper bound
\* parses, the function returns the empty sample, raises nothing and issues
\* no ledger call.
C3_FailSoftOnStatus ==
    (AfterStatusQuery /\ (info = Unbound \/ ~YieldsLatest(info))) =>
        /\ FetchDone
        /\ ret = Returns("fetch", EmptySample)
        /\ ledger_calls = <<>>

\* The status payload has a complete range whose upper bound does not parse.
C3_Witness ==
    /\ FetchDone
    /\ info # Unbound
    /\ info.wellformed
    /\ ~info.seq.present
    /\ info.cl.kind = "str"
    /\ HasDash(info.cl.toks)
    /\ ret = Returns("fetch", EmptySample)

\* C4 as claimed: when all endpoints fail during the initial status query,
\* the failure is propagated out of fetch_recent_transactions as an error.
C4_StatusFailurePropagates ==
    (FetchDone /\ info = Unbound) => ret.status = "raised"

\* C4 as amended: an all-endpoints failure is never propagated out of
\* fetch_recent_transactions; on the initial status query it is caught and
\* the function returns a sample without rows.
C4_StatusFailureCaught ==
    (FetchDone /\ (info = Unbound \/ Len(fetched) < Len(ledger_calls))) =>
        /\ ret.status = "returned"
        /\ info = Unbound => ret.value.rows = <<>>

\* The status query failed on all endpoints and the function returned.
C4_Witness ==
    /\ FetchDone
    /\ info = Unbound
    /\ rpc.state = "raised"
    /\ rpc.method = "server_info"
    /\ ret.status = "returned"

\* C5: once latest is known, the ledger calls are issued one at a time for
\* latest, latest-1, ..., latest-depth+1 in that order, each index once,
\* whatever the outcome of earlier calls; depth <= 0 counts as 1.
C5_DescendingIndices ==
    (AfterStatusQuery /\ info # Unbound /\ YieldsLatest(info)) =>
        LET n == Clamped(ledgers_back)
            want == [k \in 1..n |-> ToString(LatestYielded(info) - (k - 1))]
        IN  /\ Len(ledger_calls) \in 1..n
            /\ ledger_calls = SubSeq(want, 1, Len(ledger_calls))
            /\ FetchDone => ledger_calls = want

\* A sample of the largest depth in which every block fetch failed.
C5_Witness ==
    /\ FetchDone
    /\ ledgers_back = MaxDepth
    /\ Len(ledger_calls) = MaxDepth
    /\ fetched = <<>>

\* C6: a block whose fetch fails on all endpoints is skipped and nothing
\* else: it contributes no record, the lower indices are still attempted,
\* and every successful transaction of every fetched block is in the sample.
C6_SkipsOnlyFailedBlock ==
    (FetchDone /\ ledger_calls # <<>>) =>
        /\ Len(ledger_calls) = Clamped(ledgers_back)
        /\ \A k \in 1..Len(fetched) :
              \A n \in 1..Len(fetched[k].res.txs) :
                 fetched[k].res.txs[n].result = "tesSUCCESS" =>
                    \E m \in 1..Len(ret.value.rows) :
                       ret.value.rows[m].hash = fetched[k].res.txs[n].hash
        /\ \A m \in 1..Len(ret.value.rows) :
              \E k \in 1..Len(fetched) :
                 fetched[k].index = ret.value.rows[m].hash[1]

\* The first block failed, the second was fetched and gave records.
C6_Witness ==
    /\ FetchDone
    /\ Len(ledger_calls) = 2
    /\ Len(fetched) = 1
    /\ fetched[1].index = latest - 1
    /\ ret.value.rows # <<>>

IsSuccess(tx) == tx.result = "tesSUCCESS"

HashesOf(txs) == [n \in 1..Len(txs) |-> txs[n].hash]

\* C7: the sample has one record for every transaction of a fetched block
\* whose result code is tesSUCCESS, and none for a transaction with another
\* result code or without one.
C7_OnlySuccessful ==
    FetchDone =>
        HashesOf(ret.value.rows) =
            Flatten([k \in 1..Len(fetched) |->
                        HashesOf(SelectSeq(fetched[k].res.txs, IsSuccess))])

\* One block with a tesSUCCESS and a tecPATH_DRY transaction gave one record.
C7_Witness ==
    /\ FetchDone
    /\ Len(fetched) = 1
    /\ Len(fetched[1].res.txs) = 2
    /\ fetched[1].res.txs[1].result = "tesSUCCESS"
    /\ fetched[1].res.txs[2].result = "tecPATH_DRY"
    /\ Len(ret.value.rows) = 1

\* C8: the close instant is the human-readable timestamp when it parses,
\* else the epoch-seconds field, else, that field being absent too, the
\* clock reading at acquisition; every record of the block carries it.
C8_ThreeTierFallback ==
    pc = "block_done" =>
        LET want == IF blk.human.kind = "ok" THEN blk.human.t
                    ELSE IF blk.unix.kind = "int" THEN blk.unix.t
                    ELSE clock
        IN  (blk.human.kind = "ok" \/ blk.unix.kind \in {"int", "absent"}) =>
                \A n \in 1..Len(rows) : rows[n].date_utc = DateTime(want)

-----------------------------------------------------------------------------
(* Properties of the aggregation functions *)

\* C9: given None or an empty frame, compute_txn_per_minute and
\* compute_avg_fee return an empty frame with the columns (minute,
\* txn_count) and (minute, avg_fee_xrp), and do not raise.
C9_TotalOnEmpty ==
    (pc = "agg_done" /\ (agg_in = None \/ agg_in.rows = <<>>)) =>
        /\ agg_out.status = "returned"
        /\ agg_out.value.rows = <<>>
        /\ agg_out.op = "compute_txn_per_minute"
              => agg_out.value.columns = <<"minute", "txn_count">>
        /\ agg_out.op = "compute_avg_fee"
              => agg_out.value.columns = <<"minute", "avg_fee_xrp">>

\* compute_txn_per_minute was applied to None.
C9_Witness ==
    /\ pc = "agg_done"
    /\ agg_in = None
    /\ agg_out.op = "compute_txn_per_minute"
    /\ agg_out.status = "returned"

\* C10: the buckets returned by either function are strictly ascending by
\* minute, so that no minute occurs twice.
C10_StrictlyAscending ==
    (pc = "agg_done" /\ agg_out.status = "returned") =>
        \A a, b \in 1..Len(agg_out.value.rows) :
            a < b => agg_out.value.rows[a].minute.t < agg_out.value.rows[b].minute.t

\* Records of minute 0, minute 1 and minute 0 again gave two buckets.
C10_Witness ==
    /\ pc = "agg_done"
    /\ agg_in # None
    /\ Len(agg_in.rows) = 3
    /\ agg_in.rows[1].date_utc = DateTime(59)
    /\ agg_in.rows[2].date_utc = DateTime(60)
    /\ agg_in.rows[3].date_utc = DateTime(0)
    /\ Len(agg_out.value.rows) = 2

\* A timestamp cell that pd.to_datetime can parse, and a fee cell that
\* pd.to_numeric can parse.
ParseableTime(c) == c.kind = "datetime" \/ (c.kind = "text" /\ c.parses)
ParseableFee(c) == c.kind = "num" \/ (c.kind = "text" /\ c.parses)

\* The records of the input whose timestamp parses and lies in [m, m + 60).
RecordsOfMinute(m) ==
    { n \in 1..Len(agg_in.rows) :
        /\ ParseableTime(agg_in.rows[n].date_utc)
        /\ m <= agg_in.rows[n].date_utc.t
        /\ agg_in.rows[n].date_utc.t < m + 60 }

RECURSIVE SumOf(_, _)
SumOf(f, S) ==
    IF S = {} THEN 0
    ELSE LET x == CHOOSE y \in S : TRUE IN f[x] + SumOf(f, S \ {x})

\* C11: compute_txn_per_minute returns exactly one bucket for each minute m
\* in which at least one record has a parseable timestamp in [m, m + 1 min),
\* with txn_count the number of such records; a record whose timestamp is
\* missing or unparseable is counted nowhere, no bucket has txn_count 0, and
\* the counts sum to the number of records with a parseable timestamp.
C11_BucketCounts ==
    (pc = "agg_done" /\ agg_out.op = "compute_txn_per_minute"
        /\ agg_in # None /\ agg_in.rows # <<>>) =>
        LET out == agg_out.value.rows
            parseable == { n \in 1..Len(agg_in.rows) :
                             ParseableTime(agg_in.rows[n].date_utc) }
        IN  /\ agg_out.status = "returned"
            /\ \A k \in 1..Len(out) :
                  /\ out[k].minute.kind = "datetime"
                  /\ out[k].minute.t % 60 = 0
                  /\ out[k].txn_count = Cardinality(RecordsOfMinute(out[k].minute.t))
                  /\ out[k].txn_count > 0
            /\ \A j, k \in 1..Len(out) :
                  out[j].minute = out[k].minute => j = k
            /\ \A n \in parseable :
                  \E k \in 1..Len(out) : n \in RecordsOfMinute(out[k].minute.t)
            /\ SumOf([k \in 1..Len(out) |-> out[k].txn_count], 1..Len(out))
                  = Cardinality(parseable)

\* Records at second 0 and second 59 with an unparseable one between them
\* gave the single bucket of minute 0 with count 2.
C11_Witness ==
    /\ pc = "agg_done"
    /\ agg_out.op = "compute_txn_per_minute"
    /\ agg_in # None
    /\ Len(agg_in.rows) = 3
    /\ agg_in.rows[1].date_utc = DateTime(0)
    /\ agg_in.rows[2].date_utc = BadText
    /\ agg_in.rows[3].date_utc = DateTime(59)
    /\ agg_out.value.rows = <<[minute |-> DateTime(0), txn_count |-> 2]>>

\* The records of minute m that have a parseable fee as well.
FeeRecordsOfMinute(m) ==
    { n \in RecordsOfMinute(m) : ParseableFee(agg_in.rows[n].fee_drops) }

\* C12: for every bucket returned by compute_avg_fee, avg_fee is the
\* arithmetic mean of the fees, in drops, of the records of that minute that
\* have both a parseable fee and a parseable timestamp, divided by 1,000,000;
\* a record with an unparseable fee or timestamp contributes to neither the
\* sum nor the divisor, and a minute whose records all have unparseable fees
\* has no bucket.
C12_MeanOfParseableFees ==
    (pc = "agg_done" /\ agg_out.op = "compute_avg_fee"
        /\ agg_in # None /\ agg_in.rows # <<>>) =>
        LET out == agg_out.value.rows
            drops == [n \in 1..Len(agg_in.rows) |-> agg_in.rows[n].fee_drops.v]
        IN  /\ agg_out.status = "returned"
            /\ \A k \in 1..Len(out) :
                  LET m == out[k].minute.t
                      of == FeeRecordsOfMinute(m)
                      avg == out[k].avg_fee_xrp
                  IN  /\ m % 60 = 0
                      /\ of # {}
                      /\ avg.den > 0
                      \* avg = (sum / count) / 1,000,000
                      /\ avg.num * Cardinality(of) * 1000000
                            = SumOf(drops, of) * avg.den
            /\ \A n \in 1..Len(agg_in.rows) :
                  ( /\ ParseableTime(agg_in.rows[n].date_utc)
                    /\ ParseableFee(agg_in.rows[n].fee_drops) ) =>
                  \E k \in 1..Len(out) : n \in FeeRecordsOfMinute(out[k].minute.t)

\* Fees of 10 and 20 drops in minute 0 and an unparseable fee in minute 1:
\* one bucket, 15 drops = 0.000015 XRP = 3/200000.
C12_Witness ==
    /\ pc = "agg_done"
    /\ agg_out.op = "compute_avg_fee"
    /\ agg_in # None
    /\ Len(agg_in.rows) = 3
    /\ agg_in.rows[1].date_utc = DateTime(0)
    /\ agg_in.rows[1].fee_drops = FeeText(10)
    /\ agg_in.rows[2].date_utc = DateTime(60)
    /\ agg_in.rows[2].fee_drops = BadFee
    /\ agg_in.rows[3].date_utc = DateTime(59)
    /\ agg_in.rows[3].fee_drops = FeeText(20)
    /\ agg_out.value.rows =
          <<[minute |-> DateTime(0), avg_fee_xrp |-> [num |-> 3, den |-> 200000]]>>

-----------------------------------------------------------------------------
(* Properties of the callers of _rpc and of LAST_ENDPOINT *)

HealthReturned == pc = "done" /\ ret.op = "get_server_health"

\* C13: get_server_health never raises and treats its two halves
\* independently: the fee call is made whether or not the server_info call
\* failed; a failed half is replaced by an error descriptor (info_error or
\* fee_error) while the data of the other half is still returned; each half
\* is a single _rpc invocation, with no retry.
C13_HalvesIndependent ==
    /\ pc = "health_info" => calls = <<"server_info">>
    /\ (pc = "health_fee" \/ HealthReturned) =>
          /\ calls = <<"server_info", "fee">>
          /\ rpc.method = "fee"
          /\ IF info = Unbound \/ info = Null
             THEN health_out.info = Absent /\ health_out.info_error # Absent
             ELSE /\ health_out.info_error = Absent
                  /\ health_out.info = IF info.info = SomeDict("info")
                                THEN info.info ELSE EmptyDict
    /\ pc = "health_fee" =>
          health_out.fee = Absent /\ health_out.fee_error = Absent
    /\ HealthReturned =>
          /\ ret.status = "returned"
          /\ ret.value = health_out
          /\ IF rpc.state = "raised"
             THEN health_out.fee = Absent /\ health_out.fee_error = Str(rpc.value)
             ELSE /\ health_out.fee_error = Absent
                  /\ health_out.fee = IF rpc.value = SomeDict("fee")
                               THEN rpc.value ELSE EmptyDict

\* Every endpoint failed the server_info call, and the fee schedule was
\* still fetched and returned next to info_error.
C13_Witness ==
    /\ HealthReturned
    /\ info = Unbound
    /\ ret.value.info_error # Absent
    /\ ret.value.fee = SomeDict("fee")
    /\ ret.value.fee_error = Absent

\* C14: get_account_tx clamps the limit it is given to the range 1 to 200
\* before it issues the account_tx call: whatever limit is passed in, the
\* limit sent to the remote service lies in that range.
C14_LimitClamped ==
    rpc.method = "account_tx" =>
        (1 <= rpc.params.limit /\ rpc.params.limit <= 200)

\* C16: after any sequence of _rpc calls LAST_ENDPOINT is None if no call
\* has succeeded yet and otherwise the endpoint that satisfied the most
\* recent successful call; a call in which every endpoint fails leaves it
\* unchanged; every call starts its rotation from the first endpoint,
\* whatever LAST_ENDPOINT is.
C16_TracksLastSuccess ==
    /\ rpc.state # "trying" => LAST_ENDPOINT = last_ok
    /\ \A k \in 1..Len(rpc.tried) : rpc.tried[k].url = ENDPOINTS[k]

-----------------------------------------------------------------------------
(* Properties of cg_get_top_coins *)

CgFailed == cg.last \in {"transient", "exception"}

\* What holds of every state of a call.
CgBounded ==
    /\ cg.run <= 6
    /\ (pc = "cg" /\ CgFailed) => cg.run < 6
    /\ (pc = "cg_done" /\ CgFailed) => cg.run = 6
    /\ pc = "cg_done" =>
          /\ ret.op = "cg_get_top_coins"
          /\ ret.status = "returned"
          /\ ret.value.shape = "list"
          /\ ret.value.len <= cg.limit

====
